---- MODULE Spec2Model ----
(***************************************************************************)
(* Model of the web viewer's pixel pipeline: ImageProcessor                *)
(* (web/src/utils/imageProcessor.ts) and FrameViewer (frameViewer.ts),     *)
(* with the two callers that drive them (App and main.ts).                 *)
(*                                                                         *)
(* A buffer is [width, height, data]; data is the sequence of pixels in    *)
(* row-major order, a pixel being <<r, g, b, a>> (the four consecutive     *)
(* bytes of ImageData.data).  Pixel (x, y) is data[y * width + x + 1].     *)
(*                                                                         *)
(* Arithmetic: the code computes in IEEE doubles and stores into a         *)
(* Uint8ClampedArray, which rounds to nearest (ties to even) and clamps.   *)
(* The model computes the same quotients exactly as fractions num / den.   *)
(* Gaussian weights are Math.exp values in fixed point (1 / 10000).        *)
(***************************************************************************)
EXTENDS Integers, Sequences, FiniteSets, TLC

\* Largest width and height of the buffers the harness draws.
MaxDim == 3

-----------------------------------------------------------------------------
(* Helpers *)

RECURSIVE SumFrom(_, _, _)
SumFrom(f, lo, hi) ==
    IF lo > hi THEN 0
    ELSE IF lo = hi THEN f[lo]
    ELSE LET mid == (lo + hi) \div 2
         IN  SumFrom(f, lo, mid) + SumFrom(f, mid + 1, hi)

\* f[1] + ... + f[n]: an accumulator variable updated in a counted loop.
SumTo(f, n) == SumFrom(f, 1, n)

\* Store of the number num / den into a Uint8ClampedArray element:
\* NaN (0 / 0) becomes 0, otherwise round to nearest, ties to even, clamp.
ToUint8Clamped(num, den) ==
    IF den = 0 THEN 0
    ELSE LET q == num \div den
             r == num % den
             n == IF 2 * r < den THEN q
                  ELSE IF 2 * r > den THEN q + 1
                  ELSE IF q % 2 = 0 THEN q ELSE q + 1
         IN  IF n < 0 THEN 0 ELSE IF n > 255 THEN 255 ELSE n

\* new ImageData(width, height): every byte 0.
NewImageData(w, h) ==
    [width |-> w, height |-> h, data |-> [i \in 1..(w * h) |-> <<0, 0, 0, 0>>]]

-----------------------------------------------------------------------------
(* Grayscale *)

\* gray = data[i] * 0.299 + data[i + 1] * 0.587 + data[i + 2] * 0.114,
\* as the fraction over 1000 that a store rounds.
Luminance_Typo(p) == 299 * p[1] + 587 * p[2] + 144 * p[3]

Luminance(p) == 299 * p[1] + 587 * p[2] + 114 * p[3]

\* ImageProcessor.convertToGrayscale: writes the argument's own data array.
IP_convertToGrayscale(imageData) ==
    [imageData EXCEPT !.data =
        [i \in 1..Len(imageData.data) |->
            LET p == imageData.data[i]
                gray == ToUint8Clamped(Luminance(p), 1000)
            IN  <<gray, gray, gray, p[4]>>]]

\* The grayscale loop of FrameViewer.processImage.
FV_grayscale(imageData) ==
    [imageData EXCEPT !.data =
        [i \in 1..Len(imageData.data) |->
            LET p == imageData.data[i]
                gray == ToUint8Clamped(Luminance(p), 1000)
            IN  <<gray, gray, gray, p[4]>>]]

-----------------------------------------------------------------------------
(* Smoothing *)

\* FrameViewer.applyGaussianBlur: a box average of radius `size` over the
\* samples of `temp` (a copy taken before the loops) that lie in the buffer;
\* writes R, G, B of the argument's own data array, alpha untouched.
FV_applyGaussianBlur(imageData, size) ==
    LET w == imageData.width
        h == imageData.height
        temp == imageData.data
        side == 2 * size + 1
        n == IF size < 0 THEN 0 ELSE side * side
        Pixel(k) ==
            LET x == (k - 1) % w
                y == (k - 1) \div w
                \* iteration j of the dy, dx loops
                In(j) ==
                    LET nx == x + ((j - 1) % side) - size
                        ny == y + ((j - 1) \div side) - size
                    IN  nx >= 0 /\ nx < w /\ ny >= 0 /\ ny < h
                At(j, c) ==
                    LET nx == x + ((j - 1) % side) - size
                        ny == y + ((j - 1) \div side) - size
                    IN  IF In(j) THEN temp[ny * w + nx + 1][c] ELSE 0
                count == SumTo([j \in 1..n |-> IF In(j) THEN 1 ELSE 0], n)
                ch(c) == ToUint8Clamped(SumTo([j \in 1..n |-> At(j, c)], n), count)
            IN  <<ch(1), ch(2), ch(3), temp[k][4]>>
    IN  [imageData EXCEPT !.data = [k \in 1..(w * h) |-> Pixel(k)]]

\* createGaussianKernel entry at squared distance d2 from the centre:
\* Math.exp(-d2 / (2 * sigma * sigma)) with sigma = size / 3, in units of
\* 1 / 10000 (rounded).
\* Entries exist for the odd sizes 1, 3 and 5; an even or non-positive size
\* never gets to use a weight (see IP_blurThrows).
GaussWeight(size, d2) ==
    CASE d2 = 0 -> 10000
      [] size = 3 /\ d2 = 1 -> 6065
      [] size = 3 /\ d2 = 2 -> 3679
      [] size = 5 /\ d2 = 1 -> 8353
      [] size = 5 /\ d2 = 2 -> 6977
      [] size = 5 /\ d2 = 4 -> 4868
      [] size = 5 /\ d2 = 5 -> 4066
      [] size = 5 /\ d2 = 8 -> 2369

\* Rows of the kernel createGaussianKernel(size, sigma) builds: 0..size-1.
KernelRows(size) == 0..(size - 1)

\* radius = Math.floor(kernelSize / 2)
KernelRadius(kernelSize) == kernelSize \div 2

\* applyGaussianBlur reads kernel[ky + radius][kx + radius]; a row index with
\* no row gives undefined, and indexing undefined raises a TypeError.  It
\* happens at the first pixel, so only when there is a pixel.
IP_blurThrows(imageData, kernelSize) ==
    /\ imageData.width * imageData.height > 0
    /\ \E ky \in (-KernelRadius(kernelSize))..KernelRadius(kernelSize) :
           (ky + KernelRadius(kernelSize)) \notin KernelRows(kernelSize)

\* ImageProcessor.applyGaussianBlur when it does not throw: a new buffer;
\* each window position is clamped into the buffer (Math.min / Math.max) and
\* contributes its weight, alpha is copied.
IP_applyGaussianBlur(imageData, kernelSize) ==
    LET w == imageData.width
        h == imageData.height
        data == imageData.data
        radius == KernelRadius(kernelSize)
        side == 2 * radius + 1
        n == IF radius < 0 THEN 0 ELSE side * side
        Min(a, b) == IF a < b THEN a ELSE b
        Max(a, b) == IF a > b THEN a ELSE b
        Pixel(k) ==
            LET x == (k - 1) % w
                y == (k - 1) \div w
                kx(j) == ((j - 1) % side) - radius
                ky(j) == ((j - 1) \div side) - radius
                px(j) == Min(Max(x + kx(j), 0), w - 1)
                py(j) == Min(Max(y + ky(j), 0), h - 1)
                weight(j) == GaussWeight(kernelSize, kx(j) * kx(j) + ky(j) * ky(j))
                weightSum == SumTo([j \in 1..n |-> weight(j)], n)
                ch(c) == ToUint8Clamped(
                             SumTo([j \in 1..n |-> data[py(j) * w + px(j) + 1][c] * weight(j)], n),
                             weightSum)
            IN  <<ch(1), ch(2), ch(3), data[k][4]>>
    IN  [width |-> w, height |-> h, data |-> [k \in 1..(w * h) |-> Pixel(k)]]

-----------------------------------------------------------------------------
(* Gradient and classification *)

sobelX == <<-1, 0, 1, -2, 0, 2, -1, 0, 1>>
sobelY == <<-1, -2, -1, 0, 0, 0, 1, 2, 1>>

\* The ky, kx convolution loops at pixel (x, y) over the red channel.
Convolve(imageData, x, y, kernel) ==
    SumTo([j \in 1..9 |->
              LET ky == ((j - 1) \div 3) - 1
                  kx == ((j - 1) % 3) - 1
                  kernelIdx == (ky + 1) * 3 + (kx + 1)
              IN  imageData.data[(y + ky) * imageData.width + (x + kx) + 1][1]
                      * kernel[kernelIdx + 1]], 9)

\* Math.sqrt(gx * gx + gy * gy) > t, decided on the squares.
MagnitudeAbove(gx, gy, t) == t < 0 \/ gx * gx + gy * gy > t * t

DoubleThreshold_NonStrict(gx, gy, lowThreshold, highThreshold) ==
    IF MagnitudeAbove(gx, gy, highThreshold) \/ gx * gx + gy * gy = highThreshold * highThreshold
    THEN 255
    ELSE IF MagnitudeAbove(gx, gy, lowThreshold) \/ gx * gx + gy * gy = lowThreshold * lowThreshold
    THEN 128
    ELSE 0

\* if (magnitude > highThreshold) 255 else if (magnitude > lowThreshold) 128 else 0
DoubleThreshold(gx, gy, lowThreshold, highThreshold) ==
    IF MagnitudeAbove(gx, gy, highThreshold) THEN 255
    ELSE IF MagnitudeAbove(gx, gy, lowThreshold) THEN 128
    ELSE 0

\* The pixels the y, x loops visit: 1 <= y < height - 1, 1 <= x < width - 1.
SobelVisits(w, h, k) ==
    LET x == (k - 1) % w
        y == (k - 1) \div w
    IN  x >= 1 /\ x < w - 1 /\ y >= 1 /\ y < h - 1

IP_applySobelEdgeDetection_KeepInput(imageData, lowThreshold, highThreshold) ==
    LET w == imageData.width
        h == imageData.height
        Pixel(k) ==
            IF SobelVisits(w, h, k)
            THEN LET x == (k - 1) % w
                     y == (k - 1) \div w
                     v == DoubleThreshold(Convolve(imageData, x, y, sobelX),
                                          Convolve(imageData, x, y, sobelY),
                                          lowThreshold, highThreshold)
                 IN  <<v, v, v, 255>>
            ELSE imageData.data[k]
    IN  [width |-> w, height |-> h, data |-> [k \in 1..(w * h) |-> Pixel(k)]]

\* ImageProcessor.applySobelEdgeDetection: a new, zeroed buffer in which
\* only the visited pixels are written (three colours and alpha 255).
IP_applySobelEdgeDetection(imageData, lowThreshold, highThreshold) ==
    LET w == imageData.width
        h == imageData.height
        Pixel(k) ==
            IF SobelVisits(w, h, k)
            THEN LET x == (k - 1) % w
                     y == (k - 1) \div w
                     v == DoubleThreshold(Convolve(imageData, x, y, sobelX),
                                          Convolve(imageData, x, y, sobelY),
                                          lowThreshold, highThreshold)
                 IN  <<v, v, v, 255>>
            ELSE NewImageData(w, h).data[k]
    IN  [width |-> w, height |-> h, data |-> [k \in 1..(w * h) |-> Pixel(k)]]

\* FrameViewer.applySobel: a zeroed Uint8ClampedArray(width * height) in
\* which only the visited pixels are written.
FV_applySobel(imageData, lowThreshold, highThreshold) ==
    LET w == imageData.width
        h == imageData.height
    IN  [k \in 1..(w * h) |->
            IF SobelVisits(w, h, k)
            THEN DoubleThreshold(Convolve(imageData, (k - 1) % w, (k - 1) \div w, sobelX),
                                 Convolve(imageData, (k - 1) % w, (k - 1) \div w, sobelY),
                                 lowThreshold, highThreshold)
            ELSE 0]

\* The copy-back loop of FrameViewer.processImage: every pixel gets its edge
\* value in the three colours and alpha 255.
FV_copyEdges(imageData, edges) ==
    [imageData EXCEPT !.data = [k \in 1..Len(imageData.data) |->
                                   <<edges[k], edges[k], edges[k], 255>>]]

-----------------------------------------------------------------------------
(* One pipeline invocation *)

VARIABLES
    page,               \* "viewer" (main.ts + FrameViewer), "app" (App +
                        \* ImageProcessor) or "harness" (one direct call)
    call,               \* harness: the invocation under test
    cfg,                \* harness: the configuration it runs under
    \* FrameViewer fields
    currentImage,       \* the decoded image, NoBuf for null
    originalImageData,  \* the source buffer, NoBuf for null
    options,            \* ViewerOptions
    processingOptions,  \* ProcessingOptions
    isProcessing,
    canvas,             \* the pixels on the canvas
    loads,              \* loadImage calls whose file is still being read
    loadCount,          \* number of loadImage calls made so far
    srcGen,             \* how many times originalImageData was assigned
    renders,            \* render calls in flight, oldest first
    captured,           \* what the last successful load read from the canvas
    \* App fields
    app_currentImage,       \* the decoded image, NoBuf for null
    app_processingOptions,  \* ProcessingOptions, flags included
    app_isProcessing,
    app_canvas,             \* the pixels on the canvas
    app_loads,              \* handleFileSelect calls waiting for img.onload
    app_loadCount,          \* number of files selected so far
    app_run                 \* the processImage call in flight, NoRun for none

harnessVars == <<call, cfg>>
fvVars == <<currentImage, originalImageData, options, processingOptions, isProcessing,
            canvas, loads, loadCount, srcGen, renders, captured>>
appVars == <<app_currentImage, app_processingOptions, app_isProcessing, app_canvas,
             app_loads, app_loadCount, app_run>>
vars == <<page, harnessVars, fvVars, appVars>>

\* A buffer variable that holds no buffer (null).
NoBuf == [width |-> 0, height |-> 0, data |-> <<>>]

\* Initial values of the options objects (the field initialisers).
DefaultThreshold1 == 50
DefaultThreshold2 == 150
DefaultBlurSize == 5

(* FrameViewer.processImage(imageData).  pc: "start" -> ("delay" -> "sobel" *)
(* -> "copyback" ->) "done".  imageData is the object render passes in;     *)
(* every stage writes that object.  input, blurIn, sobelIn and flags record *)
(* what the invocation saw (they are not program state).                   *)
FV_NewCall(imageData, aliased, popts) ==
    [impl |-> "FrameViewer", pc |-> "start", imageData |-> imageData,
     aliased |-> aliased, edges |-> <<>>, input |-> imageData,
     blurIn |-> NoBuf, sobelIn |-> NoBuf,
     local |-> [threshold1 |-> 0, threshold2 |-> 0, blurSize |-> 0],
     flags |-> [grayscale |-> FALSE, edgeDetection |-> FALSE],
     atStart |-> popts, trace |-> <<>>]

\* Up to the await of the delay: the grayscale loop, run when either flag is
\* set; without edge detection the function returns here.
FV_processImage_start(inv, opts) ==
    LET gray == opts.grayscale \/ opts.edgeDetection
    IN  [inv EXCEPT
            !.imageData = IF gray THEN FV_grayscale(@) ELSE @,
            !.trace = IF gray THEN Append(@, "Grayscale") ELSE @,
            !.flags = [grayscale |-> opts.grayscale, edgeDetection |-> opts.edgeDetection],
            !.pc = IF opts.edgeDetection THEN "delay" ELSE "done"]

\* After the delay: processingOptions is destructured now, then the blur.
FV_processImage_blur(inv, popts) ==
    [inv EXCEPT
        !.local = [threshold1 |-> popts.threshold1, threshold2 |-> popts.threshold2,
                   blurSize |-> popts.blurSize],
        !.blurIn = inv.imageData,
        !.imageData = FV_applyGaussianBlur(@, popts.blurSize),
        !.trace = Append(@, "Smoothing"),
        !.pc = "sobel"]

\* const edges = this.applySobel(imageData, threshold1, threshold2)
FV_processImage_sobel(inv) ==
    [inv EXCEPT
        !.sobelIn = inv.imageData,
        !.edges = FV_applySobel(inv.imageData, inv.local.threshold1, inv.local.threshold2),
        !.trace = @ \o <<"Gradient", "Classification">>,
        !.pc = "copyback"]

\* the copy-back loop, then the function returns
FV_processImage_copy(inv) ==
    [inv EXCEPT !.imageData = FV_copyEdges(@, inv.edges), !.pc = "done"]

(* ImageProcessor.processImage(imageData, options).  pc: "start" -> ("blur" *)
(* -> "sobel" ->) "done", or "rejected" when a stage throws.  imageData is  *)
(* the caller's object; processedData starts as the same object, so the    *)
(* grayscale stage, which writes its argument, changes both.               *)
IP_NewCall(imageData, opt) ==
    [impl |-> "ImageProcessor", pc |-> "start", imageData |-> imageData,
     processedData |-> imageData, input |-> imageData,
     blurIn |-> NoBuf, sobelIn |-> NoBuf,
     flags |-> [grayscale |-> FALSE, edgeDetection |-> FALSE],
     atStart |-> opt, trace |-> <<>>]

IP_processImage_start_Always(inv, opt) ==
    LET g == IP_convertToGrayscale(inv.processedData)
    IN  [inv EXCEPT
            !.imageData = g,
            !.processedData = g,
            !.trace = Append(@, "Grayscale"),
            !.flags = [grayscale |-> opt.grayscale, edgeDetection |-> opt.edgeDetection],
            !.pc = IF opt.edgeDetection THEN "blur" ELSE "done"]

\* Up to the blur: convertToGrayscale on processedData, run when either
\* flag is set; without edge detection the function returns here.
IP_processImage_start(inv, opt) ==
    LET gray == opt.grayscale \/ opt.edgeDetection
        g == IP_convertToGrayscale(inv.processedData)
    IN  [inv EXCEPT
            !.imageData = IF gray THEN g ELSE @,
            !.processedData = IF gray THEN g ELSE @,
            !.trace = IF gray THEN Append(@, "Grayscale") ELSE @,
            !.flags = [grayscale |-> opt.grayscale, edgeDetection |-> opt.edgeDetection],
            !.pc = IF opt.edgeDetection THEN "blur" ELSE "done"]

\* processedData = await this.applyGaussianBlur(processedData, opt.blurSize)
IP_processImage_blur(inv, opt) ==
    IF IP_blurThrows(inv.processedData, opt.blurSize)
    THEN [inv EXCEPT !.blurIn = inv.processedData,
                     !.trace = Append(@, "Smoothing"),
                     !.pc = "rejected"]
    ELSE [inv EXCEPT !.blurIn = inv.processedData,
                     !.processedData = IP_applyGaussianBlur(@, opt.blurSize),
                     !.trace = Append(@, "Smoothing"),
                     !.pc = "sobel"]

\* processedData = this.applySobelEdgeDetection(processedData, threshold1, threshold2)
IP_processImage_sobel(inv, opt) ==
    [inv EXCEPT
        !.sobelIn = inv.processedData,
        !.processedData = IP_applySobelEdgeDetection(@, opt.threshold1, opt.threshold2),
        !.trace = @ \o <<"Gradient", "Classification">>,
        !.pc = "done"]

\* The buffer an invocation hands back: the returned processedData, or the
\* object FrameViewer's stages wrote.
Output(inv) == IF inv.impl = "ImageProcessor" THEN inv.processedData ELSE inv.imageData

-----------------------------------------------------------------------------
(* Harness: one call of processImage on a drawn buffer and configuration *)

Black == <<0, 0, 0, 255>>
Grey == <<100, 100, 100, 255>>
Tint == <<200, 100, 57, 128>>
White == <<255, 255, 255, 0>>

ColourPairs == {<<Black, White>>, <<Grey, Tint>>, <<Tint, Black>>, <<White, Grey>>}

Dot(w, h, i, bg, fg) ==
    [width |-> w, height |-> h, data |-> [k \in 1..(w * h) |-> IF k = i THEN fg ELSE bg]]
VStep(w, h, c, bg, fg) ==
    [width |-> w, height |-> h,
     data |-> [k \in 1..(w * h) |-> IF (k - 1) % w >= c THEN fg ELSE bg]]
HStep(w, h, r, bg, fg) ==
    [width |-> w, height |-> h,
     data |-> [k \in 1..(w * h) |-> IF (k - 1) \div w >= r THEN fg ELSE bg]]

Images ==
    UNION { {Dot(w, h, i, p[1], p[2]) : i \in 0..(w * h)}
            \cup {VStep(w, h, c, p[1], p[2]) : c \in 1..(w - 1)}
            \cup {HStep(w, h, r, p[1], p[2]) : r \in 1..(h - 1)}
          : <<w, h, p>> \in (1..MaxDim) \X (1..MaxDim) \X ColourPairs }

ThresholdPairs == {<<50, 150>>, <<0, 50>>, <<0, 0>>, <<150, 50>>}
BlurSizes == {0, 1, 2, 5}

Configs ==
    { [grayscale |-> g, edgeDetection |-> e, threshold1 |-> t[1], threshold2 |-> t[2],
       blurSize |-> b]
      : <<g, e, t, b>> \in BOOLEAN \X BOOLEAN \X ThresholdPairs \X BlurSizes }

HarnessInit ==
    /\ cfg \in Configs
    /\ call \in {FV_NewCall(img, FALSE, cfg) : img \in Images}
                \cup {IP_NewCall(img, cfg) : img \in Images}

H_FV_Start ==
    /\ call.impl = "FrameViewer" /\ call.pc = "start"
    /\ call' = FV_processImage_start(call, cfg)
    /\ UNCHANGED <<page, cfg, fvVars, appVars>>

H_FV_Blur ==
    /\ call.impl = "FrameViewer" /\ call.pc = "delay"
    /\ call' = FV_processImage_blur(call, cfg)
    /\ UNCHANGED <<page, cfg, fvVars, appVars>>

H_FV_Sobel ==
    /\ call.impl = "FrameViewer" /\ call.pc = "sobel"
    /\ call' = FV_processImage_sobel(call)
    /\ UNCHANGED <<page, cfg, fvVars, appVars>>

H_FV_Copy ==
    /\ call.impl = "FrameViewer" /\ call.pc = "copyback"
    /\ call' = FV_processImage_copy(call)
    /\ UNCHANGED <<page, cfg, fvVars, appVars>>

H_IP_Start ==
    /\ call.impl = "ImageProcessor" /\ call.pc = "start"
    /\ call' = IP_processImage_start(call, cfg)
    /\ UNCHANGED <<page, cfg, fvVars, appVars>>

H_IP_Blur ==
    /\ call.impl = "ImageProcessor" /\ call.pc = "blur"
    /\ call' = IP_processImage_blur(call, cfg)
    /\ UNCHANGED <<page, cfg, fvVars, appVars>>

H_IP_Sobel ==
    /\ call.impl = "ImageProcessor" /\ call.pc = "sobel"
    /\ call' = IP_processImage_sobel(call, cfg)
    /\ UNCHANGED <<page, cfg, fvVars, appVars>>

HarnessNext ==
    \/ H_FV_Start \/ H_FV_Blur \/ H_FV_Sobel \/ H_FV_Copy
    \/ H_IP_Start \/ H_IP_Blur \/ H_IP_Sobel

-----------------------------------------------------------------------------
(* FrameViewer and main.ts                                                 *)
(*                                                                         *)
(* Event handlers and timer callbacks are tasks: each runs to its first    *)
(* suspension.  The continuation of an await on an already settled promise *)
(* is a microtask, which runs before any other task: while a render is     *)
(* past its delay no handler runs (MicrotaskPending).  resizeCanvas is     *)
(* taken with scale 1, and the canvas as storing the bytes it is given.    *)

\* Total number of loadImage calls in a run.
MaxLoads == 2

\* Most render calls in flight at once: an event that would start one more
\* is left out of the run.
MaxInFlight == 2

\* The files a user can pick: two images and one that fails to decode.
StepImage == VStep(3, 3, 1, Black, White)
TintImage == Dot(2, 2, 1, Grey, Tint)
Files == {[ok |-> TRUE, img |-> StepImage], [ok |-> TRUE, img |-> TintImage],
          [ok |-> FALSE, img |-> NoBuf]}

\* The values the sliders and setProcessingOptions callers set.
BlurSizeValues == {DefaultBlurSize, 0}
ProcessingUpdates == {[field |-> "blurSize", value |-> v] : v \in BlurSizeValues}

FVInit ==
    /\ currentImage = NoBuf
    /\ originalImageData = NoBuf
    /\ options = [grayscale |-> FALSE, edgeDetection |-> FALSE]
    /\ processingOptions = [threshold1 |-> DefaultThreshold1,
                            threshold2 |-> DefaultThreshold2,
                            blurSize |-> DefaultBlurSize]
    /\ isProcessing = FALSE
    /\ canvas = NoBuf
    /\ loads = <<>>
    /\ loadCount = 0
    /\ srcGen = 0
    /\ renders = <<>>
    /\ captured = NoBuf

\* A render whose processImage has started again after the delay, or has
\* returned: its remaining steps are microtasks.
MicrotaskPending == \E i \in 1..Len(renders) : renders[i].inv.pc \in {"sobel", "copyback", "done"}

RemoveAt(seq, i) == SubSeq(seq, 1, i - 1) \o SubSeq(seq, i + 1, Len(seq))

RenderCopy_NoCopy(src) == [imageData |-> src, aliased |-> TRUE]

\* new ImageData(new Uint8ClampedArray(this.originalImageData.data), ...):
\* a buffer of its own with the source's samples.
RenderCopy(src) == [imageData |-> src, aliased |-> FALSE]

\* ctx.putImageData(imageData, 0, 0): the part of the canvas the buffer covers.
PutImageData(cv, imageData) ==
    [cv EXCEPT !.data =
        [k \in 1..Len(cv.data) |->
            LET x == (k - 1) % cv.width
                y == (k - 1) \div cv.width
            IN  IF x < imageData.width /\ y < imageData.height
                THEN imageData.data[y * imageData.width + x + 1]
                ELSE cv.data[k]]]

\* The source buffer after a render wrote its imageData: another object
\* unless the render was handed the source itself and the source has not
\* been replaced since.
SourceAfter(src, gen, r) ==
    IF r.inv.aliased /\ r.gen = gen THEN r.inv.imageData ELSE src

(* render(), up to its await: the guard, setLoading(true), the copy and the *)
(* part of processImage before its own await.  The result is the state the *)
(* caller goes on in: the flag, the renders in flight and the source.      *)
RenderCall(cur, src, gen, opts, popts, busy, rs) ==
    IF cur = NoBuf \/ src = NoBuf \/ busy
    THEN [isProcessing |-> busy, renders |-> rs, source |-> src]
    ELSE LET c == RenderCopy(src)
             r == [inv |-> FV_processImage_start(FV_NewCall(c.imageData, c.aliased, popts), opts),
                   gen |-> gen]
         IN  [isProcessing |-> TRUE, renders |-> Append(rs, r),
              source |-> SourceAfter(src, gen, r)]

\* loadImage(file): setLoading(true), then the reader starts.
LoadImage(file) ==
    /\ page = "viewer" /\ ~MicrotaskPending
    /\ loadCount < MaxLoads
    /\ isProcessing' = TRUE
    /\ loads' = Append(loads, file)
    /\ loadCount' = loadCount + 1
    /\ UNCHANGED <<page, harnessVars, appVars, currentImage, originalImageData, options,
                   processingOptions, canvas, srcGen, renders, captured>>

\* img.onload of a pending load: the image is drawn and read back, render()
\* is called and then setLoading(false).
ImgOnload(i) ==
    /\ page = "viewer" /\ ~MicrotaskPending
    /\ i \in 1..Len(loads) /\ loads[i].ok
    /\ LET img == loads[i].img
           after == RenderCall(img, img, srcGen + 1, options, processingOptions,
                               isProcessing, renders)
       IN  /\ Len(after.renders) <= MaxInFlight
           /\ currentImage' = img
           /\ canvas' = img
           /\ captured' = img
           /\ srcGen' = srcGen + 1
           /\ originalImageData' = after.source
           /\ renders' = after.renders
           /\ isProcessing' = FALSE
    /\ loads' = RemoveAt(loads, i)
    /\ UNCHANGED <<page, harnessVars, appVars, options, processingOptions, loadCount>>

\* reader.onerror / img.onerror of a pending load: setLoading(false).
LoadError(i) ==
    /\ page = "viewer" /\ ~MicrotaskPending
    /\ i \in 1..Len(loads) /\ ~loads[i].ok
    /\ isProcessing' = FALSE
    /\ loads' = RemoveAt(loads, i)
    /\ UNCHANGED <<page, harnessVars, appVars, currentImage, originalImageData, options,
                   processingOptions, canvas, loadCount, srcGen, renders, captured>>

\* What a handler that ends in this.render() leaves, given the options it set.
ThenRender(opts, popts) ==
    LET after == RenderCall(currentImage, originalImageData, srcGen, opts, popts,
                            isProcessing, renders)
    IN  /\ Len(after.renders) <= MaxInFlight
        /\ options' = opts
        /\ processingOptions' = popts
        /\ isProcessing' = after.isProcessing
        /\ renders' = after.renders
        /\ originalImageData' = after.source
        /\ UNCHANGED <<page, harnessVars, appVars, currentImage, canvas, loads, loadCount,
                       srcGen, captured>>

\* render() called by itself
Render ==
    /\ page = "viewer" /\ ~MicrotaskPending
    /\ ThenRender(options, processingOptions)

ToggleGrayscale ==
    /\ page = "viewer" /\ ~MicrotaskPending
    /\ ThenRender([options EXCEPT !.grayscale = ~@], processingOptions)

ToggleEdgeDetection ==
    /\ page = "viewer" /\ ~MicrotaskPending
    /\ ThenRender([options EXCEPT !.edgeDetection = ~@], processingOptions)

\* setOptions(partial): the fields given replace the current ones
SetOptions(partial) ==
    /\ page = "viewer" /\ ~MicrotaskPending
    /\ ThenRender([f \in DOMAIN options |->
                      IF f \in DOMAIN partial THEN partial[f] ELSE options[f]],
                  processingOptions)

\* setProcessingOptions(partial): render() only with edge detection on
SetProcessingOptions(u) ==
    /\ page = "viewer" /\ ~MicrotaskPending
    /\ LET popts == [processingOptions EXCEPT ![u.field] = u.value]
       IN  IF options.edgeDetection
           THEN ThenRender(options, popts)
           ELSE /\ processingOptions' = popts
                /\ UNCHANGED <<page, harnessVars, appVars, currentImage, originalImageData, options,
                               isProcessing, canvas, loads, loadCount, srcGen, renders,
                               captured>>

\* One step of the render at position i, which leaves it as r.
RenderStep(i, r) ==
    /\ renders' = [renders EXCEPT ![i] = r]
    /\ originalImageData' = SourceAfter(originalImageData, srcGen, r)
    /\ UNCHANGED <<page, harnessVars, appVars, currentImage, options, processingOptions,
                   isProcessing, canvas, loads, loadCount, srcGen, captured>>

\* The delay of the oldest waiting render ends (equal delays end in the
\* order they were started); processImage goes on with the blur.
RenderResume(i) ==
    /\ page = "viewer" /\ ~MicrotaskPending
    /\ i \in 1..Len(renders) /\ renders[i].inv.pc = "delay"
    /\ \A j \in 1..(i - 1) : renders[j].inv.pc # "delay"
    /\ RenderStep(i, [renders[i] EXCEPT !.inv = FV_processImage_blur(@, processingOptions)])

RenderSobel(i) ==
    /\ page = "viewer"
    /\ i \in 1..Len(renders) /\ renders[i].inv.pc = "sobel"
    /\ RenderStep(i, [renders[i] EXCEPT !.inv = FV_processImage_sobel(@)])

RenderCopyBack(i) ==
    /\ page = "viewer"
    /\ i \in 1..Len(renders) /\ renders[i].inv.pc = "copyback"
    /\ RenderStep(i, [renders[i] EXCEPT !.inv = FV_processImage_copy(@)])

\* processImage has returned: putImageData, the timing fields, setLoading(false)
RenderDraw(i) ==
    /\ page = "viewer"
    /\ i \in 1..Len(renders) /\ renders[i].inv.pc = "done"
    /\ canvas' = PutImageData(canvas, renders[i].inv.imageData)
    /\ isProcessing' = FALSE
    /\ renders' = RemoveAt(renders, i)
    /\ UNCHANGED <<page, harnessVars, appVars, currentImage, originalImageData, options,
                   processingOptions, loads, loadCount, srcGen, captured>>

OptionPartials ==
    {[grayscale |-> g] : g \in BOOLEAN} \cup {[edgeDetection |-> e] : e \in BOOLEAN}
    \cup {[grayscale |-> b, edgeDetection |-> b] : b \in BOOLEAN}

ViewerNext ==
    \/ \E file \in Files : LoadImage(file)
    \/ \E i \in 1..Len(loads) : ImgOnload(i)
    \/ \E i \in 1..Len(loads) : LoadError(i)
    \/ Render
    \/ ToggleGrayscale
    \/ ToggleEdgeDetection
    \/ \E partial \in OptionPartials : SetOptions(partial)
    \/ \E u \in ProcessingUpdates : SetProcessingOptions(u)
    \/ \E i \in 1..Len(renders) : RenderResume(i)
    \/ \E i \in 1..Len(renders) : RenderSobel(i)
    \/ \E i \in 1..Len(renders) : RenderCopyBack(i)
    \/ \E i \in 1..Len(renders) : RenderDraw(i)

-----------------------------------------------------------------------------
(* App and ImageProcessor                                                  *)
(*                                                                         *)
(* App.processImage runs, in the task of the handler that called it, up to *)
(* its await of ImageProcessor.processImage, which itself has run up to    *)
(* its await of applyGaussianBlur (an async function with no await of its  *)
(* own: it has run to its end, or thrown, by then).  What is left are      *)
(* microtasks: no other handler runs before them.                          *)

NoRun == [impl |-> "none", pc |-> "done"]

AppSliderUpdates ==
    {[field |-> "threshold1", value |-> v] : v \in {DefaultThreshold1, 200}}
    \cup {[field |-> "blurSize", value |-> v] : v \in {DefaultBlurSize, 2}}

AppInit ==
    /\ app_currentImage = NoBuf
    /\ app_processingOptions = [threshold1 |-> DefaultThreshold1,
                                threshold2 |-> DefaultThreshold2,
                                blurSize |-> DefaultBlurSize,
                                grayscale |-> FALSE, edgeDetection |-> FALSE]
    /\ app_isProcessing = FALSE
    /\ app_canvas = NoBuf
    /\ app_loads = <<>>
    /\ app_loadCount = 0
    /\ app_run = NoRun

\* ImageProcessor.processImage up to its first await: the grayscale stage
\* and, with edge detection, the call of applyGaussianBlur.
IP_processImage_sync(imageData, opt) ==
    LET started == IP_processImage_start(IP_NewCall(imageData, opt), opt)
    IN  IF started.pc = "blur" THEN IP_processImage_blur(started, opt) ELSE started

(* App.processImage() called with image cur and options opt: the guard, *)
(* the flag, drawImage, getImageData and the call of processImage.      *)
AppProcessImage(cur, opt) ==
    IF cur = NoBuf \/ app_isProcessing
    THEN /\ UNCHANGED <<app_isProcessing, app_canvas, app_run>>
    ELSE /\ app_isProcessing' = TRUE
         /\ app_canvas' = cur
         /\ app_run' = IP_processImage_sync(cur, opt)

\* handleFileSelect: the image element is created and its load awaited.
App_FileSelect(file) ==
    /\ page = "app" /\ app_run = NoRun
    /\ app_loadCount < MaxLoads
    /\ app_loads' = Append(app_loads, file)
    /\ app_loadCount' = app_loadCount + 1
    /\ UNCHANGED <<page, harnessVars, fvVars, app_currentImage, app_processingOptions,
                   app_isProcessing, app_canvas, app_run>>

\* img.onload resolves the awaited promise: the image is installed, the
\* canvas sized and processImage() called.  A file that does not decode
\* never gets here.
App_ImgOnload(i) ==
    /\ page = "app" /\ app_run = NoRun
    /\ i \in 1..Len(app_loads) /\ app_loads[i].ok
    /\ app_currentImage' = app_loads[i].img
    /\ app_loads' = RemoveAt(app_loads, i)
    /\ IF app_isProcessing
       THEN \* setting canvas.width / height clears the canvas
            /\ app_canvas' = NewImageData(app_loads[i].img.width, app_loads[i].img.height)
            /\ UNCHANGED <<app_isProcessing, app_run>>
       ELSE AppProcessImage(app_loads[i].img, app_processingOptions)
    /\ UNCHANGED <<page, harnessVars, fvVars, app_processingOptions, app_loadCount>>

App_ToggleEdgeDetection ==
    /\ page = "app" /\ app_run = NoRun
    /\ app_processingOptions' = [app_processingOptions EXCEPT !.edgeDetection = ~@]
    /\ AppProcessImage(app_currentImage, app_processingOptions')
    /\ UNCHANGED <<page, harnessVars, fvVars, app_currentImage, app_loads, app_loadCount>>

App_ToggleGrayscale ==
    /\ page = "app" /\ app_run = NoRun
    /\ app_processingOptions' = [app_processingOptions EXCEPT !.grayscale = ~@]
    /\ AppProcessImage(app_currentImage, app_processingOptions')
    /\ UNCHANGED <<page, harnessVars, fvVars, app_currentImage, app_loads, app_loadCount>>

\* the input handler of the three sliders
App_Slider(u) ==
    /\ page = "app" /\ app_run = NoRun
    /\ app_processingOptions' = [app_processingOptions EXCEPT ![u.field] = u.value]
    /\ AppProcessImage(app_currentImage, app_processingOptions')
    /\ UNCHANGED <<page, harnessVars, fvVars, app_currentImage, app_loads, app_loadCount>>

\* ImageProcessor.processImage after its await: the Sobel stage; the options
\* object is App's own, read now.
App_Sobel ==
    /\ page = "app" /\ app_run.pc = "sobel"
    /\ app_run' = IP_processImage_sobel(app_run, app_processingOptions)
    /\ UNCHANGED <<page, harnessVars, fvVars, app_currentImage, app_processingOptions,
                   app_isProcessing, app_canvas, app_loads, app_loadCount>>

\* App.processImage after its await: putImageData and the flag is cleared.
App_Draw ==
    /\ page = "app" /\ app_run.impl = "ImageProcessor" /\ app_run.pc = "done"
    /\ app_canvas' = PutImageData(app_canvas, app_run.processedData)
    /\ app_isProcessing' = FALSE
    /\ app_run' = NoRun
    /\ UNCHANGED <<page, harnessVars, fvVars, app_currentImage, app_processingOptions,
                   app_loads, app_loadCount>>

\* The awaited promise was rejected: the await throws, nothing after it runs.
App_Rejected ==
    /\ page = "app" /\ app_run.pc = "rejected"
    /\ app_run' = NoRun
    /\ UNCHANGED <<page, harnessVars, fvVars, app_currentImage, app_processingOptions,
                   app_isProcessing, app_canvas, app_loads, app_loadCount>>

AppNext ==
    \/ \E file \in Files : App_FileSelect(file)
    \/ \E i \in 1..Len(app_loads) : App_ImgOnload(i)
    \/ App_ToggleEdgeDetection
    \/ App_ToggleGrayscale
    \/ \E u \in AppSliderUpdates : App_Slider(u)
    \/ App_Sobel
    \/ App_Draw
    \/ App_Rejected

-----------------------------------------------------------------------------
(* Specifications *)

\* The harness: one call of processImage, nothing else running.
InitStages ==
    /\ page = "harness"
    /\ HarnessInit
    /\ FVInit
    /\ AppInit

SpecStages == InitStages /\ [][HarnessNext]_vars

Init ==
    /\ page \in {"viewer", "app"}
    /\ cfg = [grayscale |-> FALSE, edgeDetection |-> FALSE,
              threshold1 |-> DefaultThreshold1, threshold2 |-> DefaultThreshold2,
              blurSize |-> DefaultBlurSize]
    /\ call = NoRun
    /\ FVInit
    /\ AppInit

Next == ViewerNext \/ AppNext

Spec == Init /\ [][Next]_vars

-----------------------------------------------------------------------------
(* Properties *)

\* The processImage calls that exist in a state.
SystemCalls ==
    {renders[i].inv : i \in 1..Len(renders)}
    \cup (IF app_run = NoRun THEN {} ELSE {app_run})

Stages == <<"Grayscale", "Smoothing", "Gradient", "Classification">>
StagePos(st) == CHOOSE k \in 1..4 : Stages[k] = st
InStageOrder(trace) ==
    \A i, j \in 1..Len(trace) : i < j => StagePos(trace[i]) < StagePos(trace[j])
Ran(inv, st) == \E i \in 1..Len(inv.trace) : inv.trace[i] = st
Ended(inv) == inv.pc \in {"done", "rejected"}

\* C1: in every invocation the stages run in the order Grayscale, Smoothing,
\* Gradient, Classification, none twice; once the invocation has ended,
\* Grayscale has run iff grayscale or edgeDetection was enabled, and each of
\* Smoothing, Gradient and Classification has run iff edgeDetection was
\* enabled (so grayscale alone ends right after Grayscale).
C1_StageOrder ==
    \A inv \in SystemCalls :
        /\ InStageOrder(inv.trace)
        /\ Ended(inv) =>
              /\ Ran(inv, "Grayscale") <=> (inv.flags.grayscale \/ inv.flags.edgeDetection)
              /\ \A st \in {"Smoothing", "Gradient", "Classification"} :
                     Ran(inv, st) <=> inv.flags.edgeDetection
              /\ (inv.flags.grayscale /\ ~inv.flags.edgeDetection)
                     => inv.trace = <<"Grayscale">>

\* C2: the source buffer of FrameViewer holds the samples the last
\* successful loadImage captured, whatever renders, toggles and option
\* changes have happened since, and every render in flight on the current
\* source was started on those samples, in a buffer of its own.
C2_SourceIntact ==
    /\ originalImageData = captured
    /\ \A i \in 1..Len(renders) :
           renders[i].gen = srcGen =>
               /\ renders[i].inv.input = captured
               /\ ~renders[i].inv.aliased

\* C2's case: an edge-detection render has written its whole result into its
\* buffer while a second render, started by a call that arrived in between,
\* is in flight.
C2_Witness ==
    /\ Len(renders) = 2
    /\ renders[1].inv.pc = "done"
    /\ renders[1].inv.flags.edgeDetection
    /\ renders[1].gen = srcGen
    /\ renders[1].inv.imageData # originalImageData
    /\ originalImageData # NoBuf

\* C3: ImageProcessor.processImage leaves the samples of its imageData
\* argument as they were at the call.
C3_ArgumentUnchanged ==
    call.impl = "ImageProcessor" => call.imageData = call.input

\* C4: with grayscale and edgeDetection both disabled, the buffer an
\* invocation produces equals its input: same width, same height, the same
\* four channels at every pixel, whatever the thresholds and blur size.
C4_PassThrough ==
    (call.pc = "done" /\ ~cfg.grayscale /\ ~cfg.edgeDetection)
        => Output(call) = call.input

\* C4's case: an ended invocation with both flags off, on a buffer with a
\* coloured, half-transparent pixel, under thresholds and a blur size other
\* than the defaults.
C4_Witness ==
    /\ call.pc = "done" /\ ~cfg.grayscale /\ ~cfg.edgeDetection
    /\ call.impl = "ImageProcessor"
    /\ cfg.threshold1 > cfg.threshold2 /\ cfg.blurSize = 2
    /\ \E k \in 1..Len(call.input.data) : call.input.data[k] = Tint
    /\ call.input.width = 3 /\ call.input.height = 2
    /\ Output(call) = call.input

\* C5: an ended invocation's output has the input's alpha at every pixel
\* when edgeDetection is disabled, and alpha 255 at every pixel, border
\* included, when it is enabled.
C5_AlphaPolicy ==
    call.pc = "done" =>
        \A k \in 1..Len(call.input.data) :
            Output(call).data[k][4] =
                (IF cfg.edgeDetection THEN 255 ELSE call.input.data[k][4])

(* Gradient and classification as the contract states them *)

Red(buf, x, y) == buf.data[y * buf.width + x + 1][1]
Gx(buf, x, y) ==
    (Red(buf, x + 1, y - 1) + 2 * Red(buf, x + 1, y) + Red(buf, x + 1, y + 1))
    - (Red(buf, x - 1, y - 1) + 2 * Red(buf, x - 1, y) + Red(buf, x - 1, y + 1))
Gy(buf, x, y) ==
    (Red(buf, x - 1, y + 1) + 2 * Red(buf, x, y + 1) + Red(buf, x + 1, y + 1))
    - (Red(buf, x - 1, y - 1) + 2 * Red(buf, x, y - 1) + Red(buf, x + 1, y - 1))
\* the square of the magnitude sqrt(Gx^2 + Gy^2)
Mag2(buf, x, y) == Gx(buf, x, y) * Gx(buf, x, y) + Gy(buf, x, y) * Gy(buf, x, y)
\* m > high: 255; low < m <= high: 128; m <= low: 0 (thresholds >= 0)
Level(m2, low, high) ==
    IF m2 > high * high THEN 255 ELSE IF m2 > low * low THEN 128 ELSE 0

IsBorder(buf, x, y) == x = 0 \/ y = 0 \/ x = buf.width - 1 \/ y = buf.height - 1
XOf(buf, k) == (k - 1) % buf.width
YOf(buf, k) == (k - 1) \div buf.width

\* The thresholds an invocation classifies with.
LowOf(inv) == IF inv.impl = "FrameViewer" THEN inv.local.threshold1 ELSE cfg.threshold1
HighOf(inv) == IF inv.impl = "FrameViewer" THEN inv.local.threshold2 ELSE cfg.threshold2

\* Pixel k of an invocation that has run the Sobel stage shows value v: in
\* FrameViewer's edges array and, once copied back, in the three colours; in
\* the three colours of ImageProcessor's result.
Shows(inv, k, v) ==
    IF inv.impl = "FrameViewer"
    THEN /\ inv.edges[k] = v
         /\ inv.pc = "done" =>
                (inv.imageData.data[k][1] = v /\ inv.imageData.data[k][2] = v
                 /\ inv.imageData.data[k][3] = v)
    ELSE inv.processedData.data[k][1] = v /\ inv.processedData.data[k][2] = v
         /\ inv.processedData.data[k][3] = v

\* C6: with 0 <= low <= high, every interior pixel of the Sobel stage's
\* result is 255 when its own magnitude m = sqrt(Gx^2 + Gy^2) on the stage's
\* input is > high, 128 when low < m <= high, and 0 when m <= low.
C6_DoubleThreshold ==
    (call.sobelIn # NoBuf /\ 0 <= LowOf(call) /\ LowOf(call) <= HighOf(call)) =>
        \A k \in 1..Len(call.sobelIn.data) :
            LET x == XOf(call.sobelIn, k)
                y == YOf(call.sobelIn, k)
            IN  ~IsBorder(call.sobelIn, x, y) =>
                    Shows(call, k, Level(Mag2(call.sobelIn, x, y), LowOf(call), HighOf(call)))

\* C6's case: an interior pixel whose magnitude is exactly the low cut-off
\* (not zero) and below the high one, classified 0.
C6_Witness ==
    /\ call.sobelIn # NoBuf /\ call.pc = "done"
    /\ 0 < LowOf(call) /\ LowOf(call) < HighOf(call)
    /\ \E k \in 1..Len(call.sobelIn.data) :
           /\ ~IsBorder(call.sobelIn, XOf(call.sobelIn, k), YOf(call.sobelIn, k))
           /\ Mag2(call.sobelIn, XOf(call.sobelIn, k), YOf(call.sobelIn, k))
                  = LowOf(call) * LowOf(call)
           /\ Shows(call, k, 0)

\* C7: with edgeDetection enabled, every border pixel (row 0, last row,
\* column 0, last column) of the Sobel stage's result and of the output is
\* 0 in the colour channels; a buffer narrower or lower than 3 is all border.
C7_BorderZero ==
    call.sobelIn # NoBuf =>
        /\ \A k \in 1..Len(call.sobelIn.data) :
               IsBorder(call.sobelIn, XOf(call.sobelIn, k), YOf(call.sobelIn, k))
                   => Shows(call, k, 0)
        /\ (call.sobelIn.width < 3 \/ call.sobelIn.height < 3) =>
               \A k \in 1..Len(call.sobelIn.data) : Shows(call, k, 0)

\* C7's case: an ended edge-detection invocation of ImageProcessor on a 3 x 3
\* buffer whose interior pixel is a strong edge, its input to the Sobel
\* stage not black on the border.
C7_Witness ==
    /\ call.impl = "ImageProcessor" /\ call.pc = "done" /\ cfg.edgeDetection
    /\ call.sobelIn.width = 3 /\ call.sobelIn.height = 3
    /\ Shows(call, 5, 255)
    /\ \E k \in {1, 2, 3, 4, 6, 7, 8, 9} : call.sobelIn.data[k][1] > 0
    /\ \A k \in {1, 2, 3, 4, 6, 7, 8, 9} : Shows(call, k, 0)

(* Smoothing as the contract states it: the weighted average over the part *)
(* of the window that lies in the buffer.                                  *)

\* The radius and the weights the invocation's smoothing uses.
RadiusOf(inv) ==
    IF inv.impl = "FrameViewer" THEN inv.local.blurSize ELSE KernelRadius(cfg.blurSize)
WeightOf(inv, dx, dy) ==
    IF inv.impl = "FrameViewer" THEN 1 ELSE GaussWeight(cfg.blurSize, dx * dx + dy * dy)

ExclusionAverage(inv, buf, x, y, c) ==
    LET r == RadiusOf(inv)
        x0 == IF x - r < 0 THEN 0 ELSE x - r
        x1 == IF x + r > buf.width - 1 THEN buf.width - 1 ELSE x + r
        y0 == IF y - r < 0 THEN 0 ELSE y - r
        y1 == IF y + r > buf.height - 1 THEN buf.height - 1 ELSE y + r
        cols == x1 - x0 + 1
        n == cols * (y1 - y0 + 1)
        nx(j) == x0 + ((j - 1) % cols)
        ny(j) == y0 + ((j - 1) \div cols)
    IN  ToUint8Clamped(
            SumTo([j \in 1..n |-> WeightOf(inv, nx(j) - x, ny(j) - y)
                                      * buf.data[ny(j) * buf.width + nx(j) + 1][c]], n),
            SumTo([j \in 1..n |-> WeightOf(inv, nx(j) - x, ny(j) - y)], n))

\* C8: every colour channel of every pixel the Smoothing Stage produces is
\* the weighted average of the pre-smoothing samples of its window that lie
\* inside the buffer, divided by what those samples weigh.
C8_ExclusionAverage ==
    (call.pc = "sobel" /\ RadiusOf(call) >= 0) =>
        \A k \in 1..Len(call.blurIn.data) : \A c \in 1..3 :
            Output(call).data[k][c]
                = ExclusionAverage(call, call.blurIn, XOf(call.blurIn, k),
                                   YOf(call.blurIn, k), c)

\* C9: the Smoothing Stage called with size 0 completes and leaves R, G and
\* B of every pixel as they were.
C9_BlurZeroIdentity ==
    (call.blurIn # NoBuf
       /\ (IF call.impl = "FrameViewer" THEN call.local.blurSize ELSE cfg.blurSize) = 0
       /\ call.pc \in {"sobel", "rejected"}) =>
        /\ call.pc = "sobel"
        /\ \A k \in 1..Len(call.blurIn.data) : \A c \in 1..3 :
               Output(call).data[k][c] = call.blurIn.data[k][c]

\* The Grayscale Stage of the invocation's implementation.
GrayscaleOf(inv, buf) ==
    IF inv.impl = "FrameViewer" THEN FV_grayscale(buf) ELSE IP_convertToGrayscale(buf)

\* C10: after the Grayscale Stage R = G = B at every pixel and alpha is the
\* input's, and the stage applied to its own result changes no channel.
C10_GrayscaleIdempotent ==
    (call.trace = <<"Grayscale">>) =>
        /\ \A k \in 1..Len(call.input.data) :
               LET p == Output(call).data[k]
               IN  p[1] = p[2] /\ p[2] = p[3] /\ p[4] = call.input.data[k][4]
        /\ GrayscaleOf(call, Output(call)) = Output(call)

\* C10's case: the stage has run on a buffer with a coloured,
\* half-transparent pixel, which it turned grey.
C10_Witness ==
    /\ call.trace = <<"Grayscale">>
    /\ \E k \in 1..Len(call.input.data) :
           call.input.data[k] = Tint /\ Output(call).data[k] = <<125, 125, 125, 128>>

(* Validation, totality and the busy flag *)

\* The configuration is one the contract calls well-formed.
WellFormed(c) == 0 <= c.threshold1 /\ c.threshold1 <= c.threshold2 /\ c.blurSize >= 0

\* No stage of the invocation has run and no buffer of its has been written.
Untouched(inv) ==
    /\ inv.trace = <<>>
    /\ inv.imageData = inv.input
    /\ Output(inv) = inv.input

\* C11: an invocation whose configuration has lowThreshold > highThreshold
\* or a negative blur size, or whose buffer has a non-positive width or
\* height, is rejected before any stage runs: once it has left its start no
\* stage has run, no buffer has been touched and it has not ended normally.
C11_FailFast ==
    (call.pc # "start"
       /\ (cfg.threshold1 > cfg.threshold2 \/ cfg.blurSize < 0
           \/ call.input.width <= 0 \/ call.input.height <= 0)) =>
        /\ call.pc = "rejected"
        /\ Untouched(call)

\* C12: under a well-formed configuration (0 <= lowThreshold <= highThreshold,
\* blur size >= 0, zero, odd or even) no stage of an invocation raises an
\* exception, and an invocation that has stopped is Done with every enabled
\* stage run.
C12_Total ==
    WellFormed(cfg) =>
        /\ call.pc # "rejected"
        /\ (call.pc = "done" /\ cfg.edgeDetection) =>
               call.trace = <<"Grayscale", "Smoothing", "Gradient", "Classification">>

\* C13: at most one pipeline invocation is in flight per FrameViewer and per
\* App, and while one is suspended (FrameViewer's in its delay, App's at its
\* await) the busy flag of its owner is still set.
C13_BusyGate ==
    /\ Len(renders) <= 1
    /\ \A i \in 1..Len(renders) : renders[i].inv.pc = "delay" => isProcessing
    /\ app_run # NoRun => app_isProcessing

\* The thresholds and blur size in effect when the invocation started.
SnapshotOf(inv) ==
    [threshold1 |-> inv.atStart.threshold1, threshold2 |-> inv.atStart.threshold2,
     blurSize |-> inv.atStart.blurSize]

\* C14: the thresholds and the blur size an invocation computes with are the
\* ones in effect when it started, whatever was set while it was suspended.
C14_Snapshot ==
    /\ \A i \in 1..Len(renders) :
           (renders[i].inv.flags.edgeDetection
              /\ renders[i].inv.pc \in {"sobel", "copyback", "done"})
               => renders[i].inv.local = SnapshotOf(renders[i].inv)
    /\ (app_run # NoRun /\ app_run.pc = "done" /\ app_run.flags.edgeDetection) =>
           app_run.processedData
               = IP_applySobelEdgeDetection(app_run.sobelIn, app_run.atStart.threshold1,
                                            app_run.atStart.threshold2)

\* C15: a busy flag is set only while something that will clear it is under
\* way: with no load pending and no invocation in flight the flag is false,
\* so no later request is dropped because of a flag a finished or failed
\* invocation left set.
C15_FlagReleased ==
    /\ (loads = <<>> /\ renders = <<>>) => ~isProcessing
    /\ app_run = NoRun => ~app_isProcessing

\* FrameViewer.processImage run from start to end on a copy of src.
FV_Pipeline(src, opts, popts) ==
    LET started == FV_processImage_start(FV_NewCall(src, FALSE, popts), opts)
    IN  IF started.pc = "done" THEN started.imageData
        ELSE FV_processImage_copy(
                 FV_processImage_sobel(FV_processImage_blur(started, popts))).imageData

\* ImageProcessor.processImage run from start to end on the drawn image.
IP_Pipeline(src, opt) ==
    LET sync == IP_processImage_sync(src, opt)
    IN  IF sync.pc = "sobel" THEN IP_processImage_sobel(sync, opt) ELSE sync

\* C16: whenever a FrameViewer or an App with a loaded image is idle (flag
\* false, nothing in flight), the frame on the canvas is the pipeline applied
\* to the current source under the current options.
C16_NothingLost ==
    /\ (page = "viewer" /\ originalImageData # NoBuf /\ ~isProcessing
          /\ renders = <<>> /\ loads = <<>>) =>
           canvas = FV_Pipeline(originalImageData, options, processingOptions)
    /\ (page = "app" /\ app_currentImage # NoBuf /\ ~app_isProcessing
          /\ app_run = NoRun /\ app_loads = <<>>) =>
           LET run == IP_Pipeline(app_currentImage, app_processingOptions)
           IN  run.pc = "done" /\ app_canvas = run.processedData

====
